---- MODULE Spec2Model ----
(***************************************************************************)
(* Model of the Modbus RTU communication layer of Monitor_de_Amonia:       *)
(* ModbusRTUClient (src/src/modbus/modbus_client.py), the polling          *)
(* callbacks of DashboardPage (src/src/gui/pages/dashboard.py) and the     *)
(* reading controls of the ModbusTester window (src/modbus_tester.py).     *)
(*                                                                         *)
(* The serial transport (minimalmodbus / pyserial) is the environment: the *)
(* outcome of every port open and of every register I/O is chosen          *)
(* nondeterministically at the call.  Handlers run on one thread, so each  *)
(* handler is one action; the two polling loops are one action per loop    *)
(* iteration, with pc recording the loop being executed.                   *)
(*                                                                         *)
(* Numeric values are kept in hundredths (the client rounds to 2           *)
(* decimals), timeouts in milliseconds.                                    *)
(***************************************************************************)
EXTENDS Integers, Sequences, FiniteSets, TLC

\* ------------------------------------------------------------------ bounds
\* Device addresses used by add_device / read_register / write_register.
MaxDevAddr == 2
\* Largest valid address the scanner is started on, besides 247.
MaxScanAddr == 3
\* Pending singleShot callbacks of one kind.
MaxShots == 2
\* Rows of the device table of the tester window.
MaxRows == 2

\* ------------------------------------------------------- program constants
MinAddress == 1
MaxAddress == 247
ConnectTimeout == 1000
IoTimeout == 1000
ScanTimeout == 200
LastProbeAddr == 5
\* end_address of detect_modbus_devices
DetectEnd == 10
\* address of sensor_1 in initialize_modbus_devices
DefaultSensorAddr == 2

\* RegisterType (the enum's names)
RegisterType == {"COIL", "DISCRETE_INPUT", "HOLDING_REGISTER", "INPUT_REGISTER"}

\* Outcome of one register I/O on the transport: a reply, or the exception
\* minimalmodbus raises.
Resp == {"ok", "NoResponse", "InvalidResponse", "other"}

\* test_addresses of connect()
test_addresses == 1 .. LastProbeAddr

VARIABLES
    instrument,   \* "None" | "open" | "closed": self.instrument and its serial port
    connected,    \* self.connected
    address,      \* self.instrument.address, the slave the next frame goes to
    timeout,      \* self.instrument.serial.timeout in ms
    devices,      \* self.devices: insertion-ordered dict, as a sequence of configs
    pc,           \* "idle" | "polling" (read_all_devices loop) | "dash" (update_sensor_data loop)
                  \* | "tester" (the loop of ModbusTester.update_readings)
    pollIdx,      \* position of the running loop in the registry
    results,      \* results dict of read_all_devices, insertion-ordered
    lastOp,       \* the handler that ran last
    lastArgs,     \* its arguments
    lastRet,      \* its return value / raised exception
    oplog,        \* transport calls made by the last action, in order
    hist,         \* history of the poll cycles (record, see HistInit)
    dash,         \* DashboardPage state and cycle history (record, see DashInit)
    echo,         \* holding register 0 of a device that stores what is written
                  \* to it, by device address
    tester        \* ModbusTester window state (record, see TesterInit)

vars == <<instrument, connected, address, timeout, devices, pc, pollIdx,
          results, lastOp, lastArgs, lastRet, oplog, hist, dash, echo, tester>>

\* ------------------------------------------------------------ client state
\* The four fields every client method works on.
Client == [instrument |-> instrument, connected |-> connected,
           address |-> address, timeout |-> timeout]

\* One transport call.
Ev(op, a, fc, res, to) == [op |-> op, addr |-> a, fc |-> fc, res |-> res, to |-> to]

\* ModbusRTUClient.__init__
ClientInit == [instrument |-> "None", connected |-> FALSE, address |-> 0, timeout |-> 0]

MutDisconnectKeepsFlag(c) ==
    IF c.instrument # "None"
    THEN [c |-> [c EXCEPT !.instrument = "closed"],
          log |-> <<Ev("close", 0, 0, "ok", 0)>>]
    ELSE [c |-> c, log |-> <<>>]

MutDisconnectOnlyIfConnected(c) ==
    IF c.connected
    THEN [c |-> [c EXCEPT !.instrument = "closed", !.connected = FALSE],
          log |-> <<Ev("close", 0, 0, "ok", 0)>>]
    ELSE [c |-> c, log |-> <<>>]

\* ModbusRTUClient.disconnect: the second definition in the class body is the
\* one in effect.  Closes the port when an instrument exists and clears the
\* flag; the instrument object is kept.
disconnect(c) ==
    IF c.instrument # "None"
    THEN [c |-> [c EXCEPT !.instrument = "closed", !.connected = FALSE],
          log |-> <<Ev("close", 0, 0, "ok", 0)>>]
    ELSE [c |-> c, log |-> <<>>]

MutProbeAllFive(k) ==
    [i \in 1 .. LastProbeAddr |-> Ev("probe", i, 4, IF i = k THEN "ok" ELSE "fail", ConnectTimeout)]

\* Probe loop of connect(): k is the first of test_addresses that answers
\* input register 0, or 0 when none does.  Every exception of a probe is
\* caught alike, so the failures before k need no further distinction.
ProbeLog(k) ==
    LET last == IF k = 0 THEN LastProbeAddr ELSE k
    IN  [i \in 1 .. last |-> Ev("probe", i, 4, IF i = k THEN "ok" ELSE "fail", ConnectTimeout)]

MutConnectAlwaysReopens(c, openOK, k) ==
    LET d == disconnect(c) IN
    IF ~openOK
    THEN [c |-> [d.c EXCEPT !.connected = FALSE], ret |-> FALSE,
          log |-> d.log \o <<Ev("open", 0, 0, "fail", 0)>>]
    ELSE [c |-> [instrument |-> "open", connected |-> TRUE,
                 address |-> IF k = 0 THEN LastProbeAddr ELSE k,
                 timeout |-> ConnectTimeout],
          ret |-> TRUE,
          log |-> d.log \o <<Ev("open", 0, 0, "ok", 0)>> \o ProbeLog(k)]

MutConnectNeedsAnswer(c, openOK, k) ==
    IF c.connected /\ c.instrument # "None"
    THEN [c |-> c, ret |-> TRUE, log |-> <<>>]
    ELSE LET d == disconnect(c) IN
         IF ~openOK
         THEN [c |-> [d.c EXCEPT !.connected = FALSE], ret |-> FALSE,
               log |-> d.log \o <<Ev("open", 0, 0, "fail", 0)>>]
         ELSE [c |-> [instrument |-> "open", connected |-> (k # 0),
                      address |-> IF k = 0 THEN LastProbeAddr ELSE k,
                      timeout |-> ConnectTimeout],
               ret |-> (k # 0),
               log |-> d.log \o <<Ev("open", 0, 0, "ok", 0)>> \o ProbeLog(k)]

\* ModbusRTUClient.connect
connect(c, openOK, k) ==
    IF c.connected /\ c.instrument # "None"
    THEN [c |-> c, ret |-> TRUE, log |-> <<>>]
    ELSE LET d == disconnect(c) IN
         IF ~openOK
         THEN \* Instrument() raised: self.instrument keeps the old object
              [c |-> [d.c EXCEPT !.connected = FALSE], ret |-> FALSE,
               log |-> d.log \o <<Ev("open", 0, 0, "fail", 0)>>]
         ELSE [c |-> [instrument |-> "open", connected |-> TRUE,
                      address |-> IF k = 0 THEN LastProbeAddr ELSE k,
                      timeout |-> ConnectTimeout],
               ret |-> TRUE,
               log |-> d.log \o <<Ev("open", 0, 0, "ok", 0)>> \o ProbeLog(k)]


\* ------------------------------------------------------------ register I/O
MutReadFCRegistersSwapped(rt) ==
    CASE rt = "COIL" -> 1
      [] rt = "DISCRETE_INPUT" -> 2
      [] rt = "HOLDING_REGISTER" -> 4
      [] OTHER -> 3

\* Function code of a read, by register type (read_register's if/elif chain).
ReadFC(rt) ==
    CASE rt = "COIL" -> 1
      [] rt = "DISCRETE_INPUT" -> 2
      [] rt = "HOLDING_REGISTER" -> 3
      [] OTHER -> 4

\* Function code of a write; 0 when the type cannot be written.
WriteFC(rt) ==
    CASE rt = "COIL" -> 5
      [] rt = "HOLDING_REGISTER" -> 6
      [] OTHER -> 0

MutPayloadAsBit(rt, value) == IF value # 0 THEN 1 ELSE 0

\* What a write puts into its frame: bool(value) for a coil, int(value) for
\* a holding register (values are integers of the register range).
WritePayload(rt, value) ==
    IF rt = "COIL" THEN (IF value # 0 THEN 1 ELSE 0) ELSE value

\* float(value) of a successful read, in hundredths.  read_bit gives 0/1;
\* read_register gives the register, divided by 10^decimals.
ReadValue(rt, decimals, raw) ==
    IF rt \in {"COIL", "DISCRETE_INPUT"} THEN 100 * raw
    ELSE IF decimals = 2 THEN raw ELSE 100 * raw

MutHandlersOnlyNoResponse == <<"NoResponseError">>

\* The except clauses that follow the I/O of read_register and of
\* write_register, in order.
Handlers == <<"NoResponseError", "InvalidResponseError", "Exception">>

\* Whether an except clause catches what the I/O raised.
Catches(h, resp) ==
    \/ h = "Exception"
    \/ h = "NoResponseError" /\ resp = "NoResponse"
    \/ h = "InvalidResponseError" /\ resp = "InvalidResponse"

\* What leaves the try statement: nothing when the I/O succeeded or a
\* clause caught the exception, the exception otherwise.
Raised(resp) ==
    IF resp = "ok" \/ \E i \in 1 .. Len(Handlers) : Catches(Handlers[i], resp)
    THEN "none" ELSE resp

MutReadErrorKeepsFlag(c, resp) == c

MutReadErrorAlwaysClears(c, resp) == [c EXCEPT !.connected = FALSE]

\* The except clauses of read_register: NoResponseError and any other
\* exception clear self.connected, InvalidResponseError leaves it.
read_error(c, resp) ==
    IF resp = "InvalidResponse" THEN c ELSE [c EXCEPT !.connected = FALSE]

\* The except clauses of write_register (the definition in effect).
write_error(c, resp) ==
    IF resp = "InvalidResponse" THEN c ELSE [c EXCEPT !.connected = FALSE]

MutKeepAddress(c, addr) == c

\* self.instrument.address = address: the slave the next frame is sent to.
set_address(c, addr) == [c EXCEPT !.address = addr]

\* self.instrument.serial.timeout = 1.0 at the head of the try block.
override_timeout(c) == [c EXCEPT !.timeout = IoTimeout]

MutNoRestore(c, original_timeout) == c

\* The finally clause of read_register and write_register.
restore_timeout(c, original_timeout) == [c EXCEPT !.timeout = original_timeout]

MutGuardRetries(c, openOK, k) ==
    IF ~c.connected \/ c.instrument = "None"
    THEN LET r1 == connect(c, openOK, k) IN
         IF r1.ret THEN r1
         ELSE LET r2 == connect(r1.c, openOK, k) IN
              [c |-> r2.c, ret |-> r2.ret, log |-> r1.log \o r2.log]
    ELSE [c |-> c, ret |-> TRUE, log |-> <<>>]

\* The reconnect guard that opens read_register and write_register.
reconnect_guard(c, openOK, k) ==
    IF ~c.connected \/ c.instrument = "None"
    THEN connect(c, openOK, k)
    ELSE [c |-> c, ret |-> TRUE, log |-> <<>>]

\* ModbusRTUClient.read_register.  ok: a value is returned (else None).
read_register(c, addr, rt, decimals, openOK, k, resp, raw) ==
    LET g == reconnect_guard(c, openOK, k) IN
    IF ~g.ret
    THEN [c |-> g.c, ok |-> FALSE, val |-> 0, exc |-> "none", log |-> g.log]
    ELSE LET c1 == set_address(g.c, addr)
             original_timeout == c1.timeout
             c2 == override_timeout(c1)
             io == Ev("read", c2.address, ReadFC(rt), resp, c2.timeout)
             c3 == IF resp = "ok" \/ Raised(resp) # "none" THEN c2
                   ELSE read_error(c2, resp)
         IN  [c |-> restore_timeout(c3, original_timeout),
              ok |-> (resp = "ok"),
              val |-> IF resp = "ok" THEN ReadValue(rt, decimals, raw) ELSE 0,
              exc |-> Raised(resp),
              log |-> g.log \o <<io>>]

\* ModbusRTUClient.write_register (second definition, the one in effect).
write_register(c, addr, value, rt, openOK, k, resp) ==
    LET g == reconnect_guard(c, openOK, k) IN
    IF ~g.ret
    THEN [c |-> g.c, ret |-> FALSE, exc |-> "none", sent |-> 0, log |-> g.log]
    ELSE LET c1 == set_address(g.c, addr)
             original_timeout == c1.timeout
             c2 == override_timeout(c1)
         IN  IF WriteFC(rt) = 0
             THEN \* unsupported type: return False from inside the try
                  [c |-> restore_timeout(c2, original_timeout),
                   ret |-> FALSE, exc |-> "none", sent |-> 0, log |-> g.log]
             ELSE LET io == Ev("write", c2.address, WriteFC(rt), resp, c2.timeout)
                      c3 == IF resp = "ok" \/ Raised(resp) # "none" THEN c2
                            ELSE write_error(c2, resp)
                  IN  [c |-> restore_timeout(c3, original_timeout),
                       ret |-> (resp = "ok"),
                       exc |-> Raised(resp),
                       sent |-> WritePayload(rt, value),
                       log |-> g.log \o <<io>>]


\* ---------------------------------------------------------- device registry
\* ModbusDeviceConfig; scale, offset, limits and thresholds in hundredths.
DeviceConfig(a, rt, scale) ==
    [address |-> a, register |-> 0, register_type |-> rt,
     scale |-> scale, offset |-> 0, min_value |-> 0, max_value |-> 10000,
     warning_threshold |-> 7000, alarm_threshold |-> 9000]

\* The configurations add_device is called with: an input register per
\* address, and a coil at address 1, so that a re-registration can differ
\* from the entry it replaces.
DeviceChoices ==
    { DeviceConfig(a, "INPUT_REGISTER", 100) : a \in 1 .. MaxDevAddr } \cup
    { DeviceConfig(1, "COIL", 100) }

\* Raw register contents the transport may answer with.
RawRegs == {7000, 12000}

RawFor(rt) == IF rt \in {"COIL", "DISCRETE_INPUT"} THEN {0, 1} ELSE RawRegs

\* Keys of an insertion-ordered dict held as a sequence of records.
Keys(d) == [i \in 1 .. Len(d) |-> d[i].address]

KeySet(d) == { d[i].address : i \in 1 .. Len(d) }

\* d[e.address] = e on a Python dict: a new key goes last, an existing key
\* keeps its position and gets the new value.
DictSet(d, e) ==
    IF e.address \in KeySet(d)
    THEN [i \in 1 .. Len(d) |-> IF d[i].address = e.address THEN e ELSE d[i]]
    ELSE Append(d, e)

MutAddDeviceAppends(d, device) == Append(d, device)

MutAddDeviceFirst(d, device) ==
    <<device>> \o SelectSeq(d, LAMBDA x : x.address # device.address)

\* ModbusRTUClient.add_device
add_device(d, device) == DictSet(d, device)

\* round(x, 2) of x = num / 100 hundredths: nearest, ties to even.
RoundDiv100(num) ==
    LET q == num \div 100
        r == num % 100
    IN  IF r > 50 \/ (r = 50 /\ q % 2 = 1) THEN q + 1 ELSE q

MutStatusWarningFirst(device, value) ==
    IF value >= device.warning_threshold THEN "alerta"
    ELSE IF value >= device.alarm_threshold THEN "alarme"
    ELSE "normal"

\* ModbusRTUClient._get_status
get_status(device, value) ==
    IF value >= device.alarm_threshold THEN "alarme"
    ELSE IF value >= device.warning_threshold THEN "alerta"
    ELSE "normal"

MutReadDeviceClamps(c, device, openOK, k, resp, raw) ==
    LET decimals == IF device.register_type \in {"INPUT_REGISTER", "HOLDING_REGISTER"}
                    THEN 2 ELSE 0
        r == read_register(c, device.address, device.register_type, decimals,
                           openOK, k, resp, raw)
        v == RoundDiv100(r.val * device.scale + 100 * device.offset)
    IN  IF r.ok
        THEN [c |-> r.c, ok |-> TRUE,
              val |-> IF v > device.max_value THEN device.max_value
                      ELSE IF v < device.min_value THEN device.min_value ELSE v,
              exc |-> "none", log |-> r.log]
        ELSE [c |-> r.c, ok |-> FALSE, val |-> 0, exc |-> "none", log |-> r.log]

\* ModbusRTUClient.read_device: read_register with 2 decimals for input and
\* holding registers, then scale, offset and round.  The limits are only
\* logged.
read_device(c, device, openOK, k, resp, raw) ==
    LET decimals == IF device.register_type \in {"INPUT_REGISTER", "HOLDING_REGISTER"}
                    THEN 2 ELSE 0
        r == read_register(c, device.address, device.register_type, decimals,
                           openOK, k, resp, raw)
    IN  IF r.ok /\ r.exc = "none"
        THEN [c |-> r.c, ok |-> TRUE,
              val |-> RoundDiv100(r.val * device.scale + 100 * device.offset),
              exc |-> "none", log |-> r.log]
        ELSE \* None from read_register, or its exception caught here
             [c |-> r.c, ok |-> FALSE, val |-> 0, exc |-> "none", log |-> r.log]

MutReadingRangeIsError(device, r) ==
    LET inside == device.min_value <= r.val /\ r.val <= device.max_value IN
    [address |-> device.address, ok |-> r.ok /\ inside, value |-> r.val,
     status |-> IF r.ok /\ inside THEN get_status(device, r.val) ELSE "erro"]

\* One entry of the results dict of read_all_devices.
Reading(device, r) ==
    [address |-> device.address, ok |-> r.ok, value |-> r.val,
     status |-> IF r.ok THEN get_status(device, r.val) ELSE "erro"]

\* --------------------------------------------------------------- scanner
\* Addresses start..end in loop order.
ScanRange(start, end) == [i \in 1 .. (end - start + 1) |-> start + i - 1]

MutScanDropsInvalid(resp) == resp = "ok"

\* Whether the scan loop appends the probed address, by probe outcome.
scan_includes(resp) == resp \in {"ok", "InvalidResponse"}

MutScanNeedsTransport(c) == c.instrument # "open"

\* The connection precondition of scan_devices.
scan_not_connected(c) == ~c.connected

MutScanKeepsShortTimeout(c, original_timeout) == c

\* The finally clause of scan_devices.
scan_restore(c, original_timeout) == [c EXCEPT !.timeout = original_timeout]

MutScanRangeAnyOrder(start, end) ==
    \/ ~(MinAddress <= start /\ start <= MaxAddress)
    \/ ~(MinAddress <= end /\ end <= MaxAddress)

\* The three argument checks of scan_devices that raise ValueError.
scan_range_invalid(start, end) ==
    \/ ~(MinAddress <= start /\ start <= MaxAddress)
    \/ ~(MinAddress <= end /\ end <= MaxAddress)
    \/ start > end

MutScanErrorClearsFlag(c, start, end, resps) ==
    IF scan_not_connected(c)
    THEN [c |-> c, exc |-> "ModbusException", found |-> <<>>, log |-> <<>>]
    ELSE IF scan_range_invalid(start, end)
    THEN [c |-> c, exc |-> "ValueError", found |-> <<>>, log |-> <<>>]
    ELSE LET rng == ScanRange(start, end)
         IN  [c |-> [c EXCEPT !.address = end,
                              !.connected = \A a \in start .. end :
                                               resps[a] \in {"ok", "InvalidResponse"}],
              exc |-> "none",
              found |-> SelectSeq(rng, LAMBDA a : scan_includes(resps[a])),
              log |-> [i \in 1 .. Len(rng) |->
                          Ev("probe", rng[i], 4, resps[rng[i]], ScanTimeout)]]

\* ModbusRTUClient.scan_devices.  resps: the outcome of each probe, by address.
scan_devices(c, start, end, resps) ==
    IF scan_not_connected(c)
    THEN [c |-> c, exc |-> "ModbusException", found |-> <<>>, log |-> <<>>]
    ELSE IF scan_range_invalid(start, end)
    THEN [c |-> c, exc |-> "ValueError", found |-> <<>>, log |-> <<>>]
    ELSE LET original_timeout == c.timeout
             c1 == [c EXCEPT !.timeout = ScanTimeout]
             rng == ScanRange(start, end)
         IN  [c |-> scan_restore([c1 EXCEPT !.address = end], original_timeout),
              exc |-> "none",
              found |-> SelectSeq(rng, LAMBDA a : scan_includes(resps[a])),
              log |-> [i \in 1 .. Len(rng) |->
                          Ev("probe", rng[i], 4, resps[rng[i]], c1.timeout)]]


\* ------------------------------------------------------------ environment
\* Outcomes of the port open and of the connect probe that a call can meet:
\* none when the call does not connect, and no probe when the open fails.
EnvConn(c) ==
    IF c.connected /\ c.instrument # "None"
    THEN {<<TRUE, 0>>}
    ELSE {<<FALSE, 0>>} \cup {<<TRUE, k>> : k \in {0} \cup test_addresses}

\* Outcomes of one register read: a reply with its content, or an exception.
EnvRead(rt) ==
    {<<"ok", raw>> : raw \in RawFor(rt)} \cup {<<r, 0>> : r \in Resp \ {"ok"}}

\* Arguments scan_devices is called with: a short valid range, the last valid
\* address, and one address on each side of the valid interval.
ScanArgs == (0 .. MaxScanAddr) \cup {MaxAddress, MaxAddress + 1}

ScanCalls ==
    { se \in ScanArgs \X ScanArgs :
        (se[1] <= se[2] /\ se[1] >= MinAddress /\ se[2] <= MaxAddress)
            => se[2] - se[1] < MaxScanAddr }

\* Outcomes of the probes of a sweep, by address; none for a range that the
\* argument checks refuse.
ScanEnv(s, e) ==
    IF s >= MinAddress /\ e <= MaxAddress /\ s <= e
    THEN [s .. e -> Resp]
    ELSE {<<>>}

\* --------------------------------------------------------------- history
Args(a, b, rt) == [a |-> a, b |-> b, rt |-> rt]

Ret(ok, exc, val, found) == [ok |-> ok, exc |-> exc, val |-> val, found |-> found]

HistInit ==
    [reads |-> [a \in 1 .. MaxDevAddr |-> 0],  \* register reads per address, this cycle
     nrPrev |-> 0,         \* first address whose read gave NoResponse in the previous cycle
     nrCur |-> 0,          \* the same, in the running (or last) cycle; 0: none
     reconn |-> FALSE,     \* a connect attempt was made in the running cycle
     addOrder |-> <<>>]    \* addresses in the order of their first add_device

CountEv(log, op) == Cardinality({i \in 1 .. Len(log) : log[i].op = op})

HasEv(log, op, res) == \E i \in 1 .. Len(log) : log[i].op = op /\ log[i].res = res

\* warning_threshold and alarm_threshold of the 'sensors' section of the
\* configuration, in hundredths: the defaults of check_alerts (70 and 90).
DefaultThresholds == [warning_threshold |-> 7000, alarm_threshold |-> 9000]

\* Thresholds the configuration file may hold: the defaults, or lower ones.
ConfigChoices ==
    {DefaultThresholds, [warning_threshold |-> 1000, alarm_threshold |-> 5000]}

\* DashboardPage before setup_modbus has run.
DashInit ==
    [built |-> FALSE,              \* the constructor has run
     timer |-> FALSE,              \* self.update_timer.isActive()
     monitoring_started |-> FALSE, \* self.monitoring_started
     shots |-> [update_sensor_data |-> 0, start_monitoring |-> 0],
                                   \* pending QTimer.singleShot callbacks
     modbus_devices |-> <<>>,      \* self.modbus_devices, insertion-ordered
     config |-> DefaultThresholds, \* self.config['sensors'] thresholds
     alert |-> "none",             \* level of the alert the last action triggered
     success_count |-> 0,          \* counters of the running (or last) cycle
     error_count |-> 0,
     allFailed |-> FALSE,          \* the last finished cycle had every read fail
                                   \* and no register has been read since
     opened |-> FALSE,             \* a connect attempt was made since it ended
     lost |-> FALSE]               \* a poll whose reconnect attempt failed switched
                                   \* monitoring off, and neither the timer has been
                                   \* started nor the button clicked since

\* ModbusTester.__init__ (modbus_tester.py).
TesterInit ==
    [connected |-> FALSE,            \* self.connected
     instrument |-> FALSE,           \* self.instrument is not None
     reading_in_progress |-> FALSE,  \* self.reading_in_progress
     timer |-> FALSE,                \* self.update_timer.isActive()
     slot |-> "safe_update_readings",\* the method its timeout is connected to
     parented |-> FALSE,             \* it was created as QTimer(self)
     orphan |-> FALSE,               \* a QTimer(self) that self.update_timer no
                                     \* longer names is still active
     start_enabled |-> TRUE,         \* toolbar action 'Iniciar Leitura'
     stop_enabled |-> FALSE,         \* toolbar action 'Parar Leitura'
     devices_tab |-> TRUE,           \* the devices tab is enabled
     rows |-> 0,                     \* self.device_table.rowCount()
     shots |-> 0,                    \* pending singleShot(100, safe_update_readings)
     safe |-> FALSE]                 \* the running cycle was entered through
                                     \* safe_update_readings

\* A direct call between two polls: the results of the last poll are gone and
\* the history of consecutive cycles starts afresh.
EndsPollHistory ==
    /\ results' = <<>>
    /\ hist' = [HistInit EXCEPT !.addOrder = hist.addOrder]

SetClient(c) ==
    /\ instrument' = c.instrument
    /\ connected' = c.connected
    /\ address' = c.address
    /\ timeout' = c.timeout

Init ==
    /\ instrument = ClientInit.instrument
    /\ connected = ClientInit.connected
    /\ address = ClientInit.address
    /\ timeout = ClientInit.timeout
    /\ devices = <<>>
    /\ pc = "idle"
    /\ pollIdx = 0
    /\ results = <<>>
    /\ lastOp = "init"
    /\ lastArgs = Args(0, 0, "-")
    /\ lastRet = Ret(TRUE, "none", 0, <<>>)
    /\ oplog = <<>>
    /\ hist = HistInit
    /\ dash = DashInit
    /\ echo = [a \in 1 .. MaxDevAddr |-> 0]
    /\ tester = TesterInit

\* ------------------------------------------------------------ client calls
Connect ==
    /\ pc = "idle"
    /\ \E e \in EnvConn(Client) :
         LET r == connect(Client, e[1], e[2]) IN
         /\ SetClient(r.c)
         /\ lastRet' = Ret(r.ret, "none", 0, <<>>)
         /\ oplog' = r.log
    /\ lastOp' = "connect"
    /\ lastArgs' = Args(0, 0, "-")
    /\ EndsPollHistory
    /\ UNCHANGED <<tester, echo, devices, pc, pollIdx, dash>>

Disconnect ==
    /\ pc = "idle"
    /\ LET r == disconnect(Client) IN
         /\ SetClient(r.c)
         /\ oplog' = r.log
    /\ lastOp' = "disconnect"
    /\ lastArgs' = Args(0, 0, "-")
    /\ lastRet' = Ret(TRUE, "none", 0, <<>>)
    /\ EndsPollHistory
    /\ UNCHANGED <<tester, echo, devices, pc, pollIdx, dash>>

ReadRegister ==
    /\ pc = "idle"
    /\ \E a \in 1 .. MaxDevAddr, rt \in RegisterType :
       \E e \in EnvConn(Client), io \in EnvRead(rt) :
         LET r == read_register(Client, a, rt, 0, e[1], e[2], io[1], io[2]) IN
         /\ SetClient(r.c)
         /\ lastArgs' = Args(a, 0, rt)
         /\ lastRet' = Ret(r.ok, r.exc, r.val, <<>>)
         /\ oplog' = r.log
    /\ lastOp' = "read_register"
    /\ EndsPollHistory
    /\ UNCHANGED <<tester, echo, devices, pc, pollIdx, dash>>

\* A call write_register(a, register, 1, rt).
WriteCall(a, rt) ==
    /\ pc = "idle"
    /\ \E e \in EnvConn(Client), resp \in Resp :
         LET r == write_register(Client, a, 1, rt, e[1], e[2], resp) IN
         /\ SetClient(r.c)
         /\ lastRet' = Ret(r.ret, r.exc, 0, <<>>)
         /\ oplog' = r.log
    /\ lastArgs' = Args(a, 1, rt)
    /\ lastOp' = "write_register"
    /\ EndsPollHistory
    /\ UNCHANGED <<tester, echo, devices, pc, pollIdx, dash>>

WriteRegister == \E a \in 1 .. MaxDevAddr, rt \in RegisterType : WriteCall(a, rt)

\* The write that DashboardPage.trigger_test_alarm sends: holding register 0
\* of device 1.
AlarmWrite == WriteCall(1, "HOLDING_REGISTER")

\* A call scan_devices(s, e).
ScanCall(s, e) ==
    /\ pc = "idle"
    /\ \E resps \in ScanEnv(s, e) :
         LET r == scan_devices(Client, s, e, resps) IN
         /\ SetClient(r.c)
         /\ lastRet' = Ret(r.exc = "none", r.exc, 0, r.found)
         /\ oplog' = r.log
    /\ lastArgs' = Args(s, e, "-")
    /\ lastOp' = "scan_devices"
    /\ EndsPollHistory
    /\ UNCHANGED <<tester, echo, devices, pc, pollIdx, dash>>

ScanDevices == \E se \in ScanCalls : ScanCall(se[1], se[2])

\* A sweep over the addresses devices are registered at.
SweepDevices == ScanCall(MinAddress, MaxDevAddr)

\* ----------------------------------------------------- registry and poller
AddDevice ==
    /\ pc = "idle"
    /\ \E d \in DeviceChoices :
         /\ devices' = add_device(devices, d)
         /\ lastArgs' = Args(d.address, 0, d.register_type)
         /\ hist' = [hist EXCEPT
                       !.addOrder = IF \E i \in 1 .. Len(@) : @[i] = d.address
                                    THEN @ ELSE Append(@, d.address)]
    /\ lastOp' = "add_device"
    /\ lastRet' = Ret(TRUE, "none", 0, <<>>)
    /\ oplog' = <<>>
    /\ UNCHANGED <<tester, echo, instrument, connected, address, timeout, pc, pollIdx, results, dash>>

\* Entry of read_all_devices: results = {} and the iteration over
\* self.devices.items() begins; with an empty registry it returns at once.
PollStart ==
    /\ pc = "idle"
    /\ pc' = IF devices = <<>> THEN "idle" ELSE "polling"
    /\ pollIdx' = 1
    /\ results' = <<>>
    /\ lastOp' = "read_all_devices"
    /\ lastArgs' = Args(0, 0, "-")
    /\ lastRet' = Ret(TRUE, "none", 0, <<>>)
    /\ oplog' = <<>>
    /\ hist' = [hist EXCEPT !.reads = [a \in 1 .. MaxDevAddr |-> 0],
                            !.nrPrev = hist.nrCur,
                            !.nrCur = 0,
                            !.reconn = FALSE]
    /\ UNCHANGED <<tester, echo, instrument, connected, address, timeout, devices, dash>>

\* One iteration of the loop of read_all_devices: read_device on the next
\* registered device and the entry it stores in results.
PollStep ==
    /\ pc = "polling"
    /\ pollIdx <= Len(devices)
    /\ LET device == devices[pollIdx] IN
       \E e \in EnvConn(Client), io \in EnvRead(device.register_type) :
         LET r == read_device(Client, device, e[1], e[2], io[1], io[2]) IN
         /\ SetClient(r.c)
         /\ results' = DictSet(results, Reading(device, r))
         /\ lastArgs' = Args(device.address, 0, device.register_type)
         /\ lastRet' = Ret(r.ok, r.exc, r.val, <<>>)
         /\ oplog' = r.log
         /\ hist' = [hist EXCEPT
                       !.reads[device.address] = @ + CountEv(r.log, "read"),
                       !.nrCur = IF @ = 0 /\ HasEv(r.log, "read", "NoResponse")
                                 THEN device.address ELSE @,
                       !.reconn = @ \/ CountEv(r.log, "open") > 0]
    /\ pollIdx' = pollIdx + 1
    /\ pc' = IF pollIdx = Len(devices) THEN "idle" ELSE "polling"
    /\ lastOp' = "read_all_devices"
    /\ UNCHANGED <<tester, echo, devices, dash>>

\* ------------------------------------------------------------ echo device
\* Values written to the device: the ends of the register range and 42.
EchoValues == {0, 42, 65535}

\* write_register(a, 0, v, HOLDING_REGISTER) to a device that answers and
\* stores the register it is sent.
EchoWrite ==
    /\ pc = "idle"
    /\ \E a \in 1 .. MaxDevAddr, v \in EchoValues, e \in EnvConn(Client) :
         LET r == write_register(Client, a, v, "HOLDING_REGISTER", e[1], e[2], "ok")
             io == r.log[Len(r.log)]
         IN  /\ SetClient(r.c)
             /\ echo' = IF r.log # <<>> /\ io.op = "write"
                         THEN [echo EXCEPT ![io.addr] = r.sent] ELSE echo
             /\ lastArgs' = Args(a, v, "HOLDING_REGISTER")
             /\ lastRet' = Ret(r.ret, r.exc, 0, <<>>)
             /\ oplog' = r.log
    /\ lastOp' = "write_register"
    /\ EndsPollHistory
    /\ UNCHANGED <<tester, devices, pc, pollIdx, dash>>

\* read_register(a, 0, HOLDING_REGISTER) from the same device: it answers
\* with the register it holds.
EchoRead ==
    /\ pc = "idle"
    /\ \E a \in 1 .. MaxDevAddr, e \in EnvConn(Client) :
         LET r == read_register(Client, a, "HOLDING_REGISTER", 0, e[1], e[2],
                                "ok", echo[a])
         IN  /\ SetClient(r.c)
             /\ lastArgs' = Args(a, 0, "HOLDING_REGISTER")
             /\ lastRet' = Ret(r.ok, r.exc, r.val, <<>>)
             /\ oplog' = r.log
    /\ lastOp' = "read_register"
    /\ EndsPollHistory
    /\ UNCHANGED <<tester, echo, devices, pc, pollIdx, dash>>

\* ------------------------------------------------------------- classifier
\* Thresholds and values _get_status is applied to, in hundredths; a warning
\* threshold may lie above the alarm threshold.
ThresholdChoices == {2500, 5000, 7000, 9000}

ValueChoices == {0, 2499, 2500, 5000, 6999, 7000, 9000, 12000}

\* The call self._get_status(device, value) of read_all_devices, on a
\* registry of one device with any thresholds and for any value read.
GetStatus ==
    /\ pc = "idle"
    /\ \E w \in ThresholdChoices, a \in ThresholdChoices, v \in ValueChoices :
         LET device == [DeviceConfig(1, "INPUT_REGISTER", 100) EXCEPT
                           !.warning_threshold = w, !.alarm_threshold = a]
         IN  /\ devices' = <<device>>
             /\ results' = <<[address |-> 1, ok |-> TRUE, value |-> v,
                              status |-> get_status(device, v)]>>
             /\ lastRet' = Ret(TRUE, "none", v, <<>>)
    /\ lastOp' = "_get_status"
    /\ lastArgs' = Args(1, 0, "INPUT_REGISTER")
    /\ oplog' = <<>>
    /\ UNCHANGED <<tester, echo, instrument, connected, address, timeout, pc, pollIdx, hist, dash>>

\* ---------------------------------------------------------- DashboardPage
\* The dashboard identifies a sensor by the string "sensor_<n>"; the model
\* keeps n.  UI widgets, the status bar and the readings database are not
\* part of the model.
SensorEntry(id, device) == [id |-> id, device |-> device]

\* sensor_configs of initialize_modbus_devices: sensor_1 is the input
\* register 0 of the device at address 2, scale 0.1.
sensor_configs ==
    <<SensorEntry(1, DeviceConfig(DefaultSensorAddr, "INPUT_REGISTER", 10))>>

\* _identify_device_type for the addresses detect_modbus_devices sweeps
\* (1..10, the ammonia sensors): input register 0, scale 0.1.
identify_device_type(addr) == DeviceConfig(addr, "INPUT_REGISTER", 10)

IdSet(md) == { md[i].id : i \in 1 .. Len(md) }

\* What a dashboard method leaves behind: the client, the client's registry,
\* the page's own fields, the return value and the transport calls made.
DashRes(c, cd, d, ret, log) == [c |-> c, cd |-> cd, d |-> d, ret |-> ret, log |-> log]

\* One more pending QTimer.singleShot of the callback.
AddShot(d, callback) == [d EXCEPT !.shots[callback] = @ + 1]

\* DashboardPage.stop_monitoring
stop_monitoring(d) == [d EXCEPT !.timer = FALSE, !.monitoring_started = FALSE]

\* DashboardPage.start_monitoring: connects only when the client's flag is
\* false and returns False when that fails; otherwise (re)starts the update
\* timer and schedules an immediate update_sensor_data.
start_monitoring(c, d, openOK, k) ==
    LET r == IF ~c.connected THEN connect(c, openOK, k)
             ELSE [c |-> c, ret |-> TRUE, log |-> <<>>]
    IN  IF ~r.ret
        THEN [c |-> r.c, d |-> d, ret |-> FALSE, log |-> r.log]
        ELSE [c |-> r.c,
              d |-> AddShot([d EXCEPT !.timer = TRUE, !.monitoring_started = TRUE],
                            "update_sensor_data"),
              ret |-> TRUE, log |-> r.log]

\* DashboardPage.toggle_monitoring
toggle_monitoring(c, d, openOK, k) ==
    IF d.monitoring_started
    THEN [c |-> c, d |-> stop_monitoring(d), ret |-> TRUE, log |-> <<>>]
    ELSE start_monitoring(c, d, openOK, k)

\* DashboardPage.initialize_modbus_devices.  It has no return statement on
\* the path that registers the sensors, so that path returns None.
initialize_modbus_devices(c, cd, d) ==
    IF ~c.connected THEN [cd |-> cd, d |-> d, ret |-> FALSE]
    ELSE IF d.modbus_devices # <<>> THEN [cd |-> cd, d |-> d, ret |-> TRUE]
    ELSE [cd |-> add_device(cd, sensor_configs[1].device),
          d |-> [d EXCEPT !.modbus_devices = sensor_configs],
          ret |-> FALSE]

\* The loop of auto_configure_devices over the sorted addresses: an address
\* whose id is already configured is skipped, any other is registered with
\* the client and with the page.
RECURSIVE configure_loop(_, _, _)
configure_loop(cd, md, addrs) ==
    IF addrs = <<>> THEN [cd |-> cd, md |-> md]
    ELSE LET addr == Head(addrs) IN
         IF addr \in IdSet(md)
         THEN configure_loop(cd, md, Tail(addrs))
         ELSE LET device == identify_device_type(addr) IN
              configure_loop(add_device(cd, device),
                             Append(md, SensorEntry(addr, device)),
                             Tail(addrs))

\* DashboardPage.auto_configure_devices, called with the addresses a sweep
\* found (ascending, no duplicates) while the client is connected.
auto_configure_devices(c, cd, d, found) ==
    IF found = <<>> THEN DashRes(c, cd, d, TRUE, <<>>)
    ELSE LET cfg == configure_loop(cd, d.modbus_devices, found)
             d1 == [d EXCEPT !.modbus_devices = cfg.md]
         IN  IF ~d1.monitoring_started
             THEN LET s == start_monitoring(c, d1, TRUE, 0)
                  IN  DashRes(s.c, cfg.cd, s.d, TRUE, s.log)
             ELSE DashRes(c, cfg.cd, d1, TRUE, <<>>)

\* DashboardPage.detect_modbus_devices: sweeps 1..10 when the client is
\* connected and configures what answered.
detect_modbus_devices(c, cd, d, resps) ==
    IF ~c.connected THEN DashRes(c, cd, d, TRUE, <<>>)
    ELSE LET sc == scan_devices(c, MinAddress, DetectEnd, resps)
             a == auto_configure_devices(sc.c, cd, d, sc.found)
         IN  DashRes(a.c, a.cd, a.d, TRUE, sc.log \o a.log)

\* DashboardPage.setup_modbus (the second definition, the one in effect): a
\* new client, connect, and on success the default sensor.
setup_modbus(d, openOK, k) ==
    LET r == connect(ClientInit, openOK, k) IN
    IF r.ret
    THEN LET i == initialize_modbus_devices(r.c, <<>>, d)
         IN  DashRes(r.c, i.cd, i.d, TRUE, r.log)
    ELSE DashRes(r.c, <<>>, d, FALSE, r.log)

\* The part of update_sensor_data before its loop.  go: the loop is entered.
update_sensor_data(c, cd, d, openOK, k) ==
    LET r == IF ~c.connected THEN connect(c, openOK, k)
             ELSE [c |-> c, ret |-> TRUE, log |-> <<>>]
    IN  IF ~r.ret
        THEN \* reconnect failed: monitoring is switched off, retry in 5 s
             LET d1 == IF d.monitoring_started THEN stop_monitoring(d) ELSE d
             IN  [c |-> r.c, cd |-> cd, d |-> AddShot(d1, "update_sensor_data"),
                  go |-> FALSE, log |-> r.log]
        ELSE IF d.modbus_devices = <<>>
        THEN LET i == initialize_modbus_devices(r.c, cd, d)
             IN  [c |-> r.c, cd |-> i.cd, d |-> i.d, go |-> i.ret, log |-> r.log]
        ELSE [c |-> r.c, cd |-> cd,
              d |-> [d EXCEPT !.success_count = 0, !.error_count = 0],
              go |-> TRUE, log |-> r.log]

\* The end of update_sensor_data, after the loop: when no sensor was read
\* and at least one failed, monitoring is stopped and start_monitoring is
\* scheduled.
after_loop(d) ==
    IF d.success_count = 0 /\ d.error_count > 0
    THEN AddShot(stop_monitoring(d), "start_monitoring")
    ELSE d

\* The limits update_sensor_data applies to a value that was read:
\* max(device.min_value, min(value, device.max_value)).
clamp(device, value) ==
    LET m == IF value < device.max_value THEN value ELSE device.max_value
    IN  IF device.min_value > m THEN device.min_value ELSE m

\* DashboardPage.check_alerts: the level of the alert it triggers for the
\* value, by the thresholds of the configuration.
check_alerts(config, value) ==
    IF value >= config.alarm_threshold THEN "CRITICO"
    ELSE IF value >= config.warning_threshold THEN "ALERTA"
    ELSE "none"

\* Outcomes of the probes of the sweep 1..10 of detect_modbus_devices: only
\* the addresses up to MaxDevAddr have a device that may answer.
DetectEnv ==
    { [a \in MinAddress .. DetectEnd |-> IF a <= MaxDevAddr THEN g[a] ELSE "NoResponse"] :
        g \in [1 .. MaxDevAddr -> Resp] }

NoDevices == [a \in MinAddress .. DetectEnd |-> "NoResponse"]

\* History of the cycles of update_sensor_data: an all-failed cycle that has
\* just ended starts a new record, a connect attempt is noted, and a register
\* read ends the record.
Track(d0, d1, log, endsAllFailed) ==
    [d1 EXCEPT
       !.allFailed = IF endsAllFailed THEN TRUE
                     ELSE IF CountEv(log, "read") > 0 THEN FALSE ELSE d0.allFailed,
       !.opened = IF endsAllFailed THEN FALSE
                  ELSE d0.opened \/ CountEv(log, "open") > 0,
       !.alert = "none",
       !.lost = IF d1.timer THEN FALSE
                ELSE \/ d0.lost
                     \/ /\ d0.monitoring_started /\ ~d1.monitoring_started
                        /\ HasEv(log, "open", "fail")]

ShotsFit(d) ==
    \A cb \in DOMAIN d.shots : d.shots[cb] <= MaxShots

\* DashboardPage.__init__: setup_modbus, then load_sensor_config, which
\* sweeps for devices when the sensor_config table is empty.
Construct ==
    /\ pc = "idle" /\ ~dash.built
    /\ \E e \in EnvConn(ClientInit), dbEmpty \in BOOLEAN, resps \in DetectEnv,
          config \in ConfigChoices :
         LET s == setup_modbus([dash EXCEPT !.built = TRUE, !.config = config],
                               e[1], e[2])
             r == IF dbEmpty THEN detect_modbus_devices(s.c, s.cd, s.d, resps)
                  ELSE DashRes(s.c, s.cd, s.d, TRUE, <<>>)
         IN  /\ (~dbEmpty \/ ~s.ret) => resps = NoDevices
             /\ SetClient(r.c)
             /\ devices' = r.cd
             /\ dash' = Track(dash, r.d, s.log \o r.log, FALSE)
             /\ lastRet' = Ret(s.ret, "none", 0, <<>>)
             /\ oplog' = s.log \o r.log
    /\ lastOp' = "setup_modbus"
    /\ lastArgs' = Args(0, 0, "-")
    /\ UNCHANGED <<tester, echo, pc, pollIdx, results, hist>>

\* A click on the action button.
ToggleMonitoring ==
    /\ pc = "idle" /\ dash.built
    /\ \E e \in EnvConn(Client) :
         LET r == toggle_monitoring(Client, dash, e[1], e[2]) IN
         /\ ShotsFit(r.d)
         /\ SetClient(r.c)
         /\ dash' = [Track(dash, r.d, r.log, FALSE) EXCEPT !.lost = FALSE]
         /\ lastRet' = Ret(r.ret, "none", 0, <<>>)
         /\ oplog' = r.log
    /\ lastOp' = "toggle_monitoring"
    /\ lastArgs' = Args(0, 0, "-")
    /\ UNCHANGED <<tester, echo, devices, pc, pollIdx, results, hist>>

\* The singleShot that update_sensor_data leaves after an all-failed cycle
\* fires: start_monitoring.
ShotStartMonitoring ==
    /\ pc = "idle" /\ dash.shots["start_monitoring"] > 0
    /\ \E e \in EnvConn(Client) :
         LET d0 == [dash EXCEPT !.shots["start_monitoring"] = @ - 1]
             r == start_monitoring(Client, d0, e[1], e[2])
         IN  /\ ShotsFit(r.d)
             /\ SetClient(r.c)
             /\ dash' = Track(dash, r.d, r.log, FALSE)
             /\ lastRet' = Ret(r.ret, "none", 0, <<>>)
             /\ oplog' = r.log
    /\ lastOp' = "start_monitoring"
    /\ lastArgs' = Args(0, 0, "-")
    /\ UNCHANGED <<tester, echo, devices, pc, pollIdx, results, hist>>

\* update_sensor_data is entered, from the page state d0.
UpdateEntry(d0) ==
    /\ \E e \in EnvConn(Client) :
         LET r == update_sensor_data(Client, devices, d0, e[1], e[2]) IN
         /\ ShotsFit(r.d)
         /\ SetClient(r.c)
         /\ devices' = r.cd
         /\ dash' = Track(dash, r.d, r.log, FALSE)
         /\ pc' = IF r.go THEN "dash" ELSE "idle"
         /\ lastRet' = Ret(r.go, "none", 0, <<>>)
         /\ oplog' = r.log
    /\ pollIdx' = 1
    /\ lastOp' = "update_sensor_data"
    /\ lastArgs' = Args(0, 0, "-")
    /\ UNCHANGED <<tester, echo, results, hist>>

\* The update timer times out.
TimerTick ==
    /\ pc = "idle" /\ dash.timer
    /\ UpdateEntry(dash)

\* A singleShot of update_sensor_data fires.
ShotUpdate ==
    /\ pc = "idle" /\ dash.shots["update_sensor_data"] > 0
    /\ UpdateEntry([dash EXCEPT !.shots["update_sensor_data"] = @ - 1])

\* One iteration of the loop of update_sensor_data: read_device on the next
\* sensor and the counters; the last iteration runs on to the end of the
\* method.
UpdateStep ==
    /\ pc = "dash"
    /\ pollIdx <= Len(dash.modbus_devices)
    /\ LET device == dash.modbus_devices[pollIdx].device
           last == pollIdx = Len(dash.modbus_devices)
       IN
       \E e \in EnvConn(Client), io \in EnvRead(device.register_type) :
         LET r == read_device(Client, device, e[1], e[2], io[1], io[2])
             d1 == IF r.ok THEN [dash EXCEPT !.success_count = @ + 1]
                   ELSE [dash EXCEPT !.error_count = @ + 1]
             d2 == IF last THEN after_loop(d1) ELSE d1
         IN  /\ ShotsFit(d2)
             /\ SetClient(r.c)
             /\ dash' = [Track(dash, d2, r.log,
                               last /\ d1.success_count = 0 /\ d1.error_count > 0)
                           EXCEPT !.alert = IF r.ok
                                            THEN check_alerts(dash.config,
                                                              clamp(device, r.val))
                                            ELSE "none"]
             /\ lastArgs' = Args(device.address, dash.modbus_devices[pollIdx].id,
                                 device.register_type)
             /\ lastRet' = Ret(IF last THEN d1.success_count > 0 ELSE r.ok, "none",
                               IF r.ok THEN clamp(device, r.val) ELSE 0, <<>>)
             /\ oplog' = r.log
             /\ pc' = IF last THEN "idle" ELSE "dash"
    /\ pollIdx' = pollIdx + 1
    /\ lastOp' = "update_sensor_data"
    /\ UNCHANGED <<tester, echo, devices, results, hist>>

\* ----------------------------------------------------------- ModbusTester
\* The tester window talks to minimalmodbus itself.  Where a method is
\* defined twice in the class the later definition is the one in effect.
\* The table rows are kept as a count; widgets and messages are left out.

\* ModbusTester.connect_modbus: the instrument is created and register 0 is
\* read once; any failure leaves the tester without instrument.
tester_connect_modbus(t, openOK, answered) ==
    IF openOK /\ answered
    THEN [t EXCEPT !.instrument = TRUE, !.connected = TRUE, !.devices_tab = TRUE]
    ELSE [t EXCEPT !.instrument = FALSE]

\* ModbusTester.disconnect_modbus
tester_disconnect_modbus(t) ==
    [t EXCEPT !.instrument = FALSE, !.connected = FALSE, !.devices_tab = FALSE]

\* The finally clause of update_readings and of safe_update_readings.
tester_finally(t) == [t EXCEPT !.reading_in_progress = FALSE]

\* The head of ModbusTester.update_readings: it returns at once without
\* connection or when reading_in_progress is set, and sets the flag
\* otherwise.  go: the read cycle is executed.
tester_update_readings(t) ==
    IF ~t.connected \/ ~t.instrument THEN [t |-> t, go |-> FALSE]
    ELSE IF t.reading_in_progress THEN [t |-> t, go |-> FALSE]
    ELSE [t |-> [t EXCEPT !.reading_in_progress = TRUE], go |-> TRUE]

\* ModbusTester.start_reading, up to and including its call of
\* update_readings.
tester_start_reading(t) ==
    IF ~t.connected THEN [t |-> t, go |-> FALSE]
    ELSE tester_update_readings(
             [t EXCEPT !.reading_in_progress = TRUE,
                       !.start_enabled = FALSE, !.stop_enabled = TRUE,
                       !.orphan = @ \/ (t.timer /\ t.parented),
                       !.timer = TRUE, !.slot = "update_readings",
                       !.parented = TRUE])

\* ModbusTester.stop_reading
tester_stop_reading(t) ==
    [t EXCEPT !.timer = FALSE, !.reading_in_progress = FALSE,
              !.start_enabled = TRUE, !.stop_enabled = FALSE]

\* ModbusTester.toggle_reading
tester_toggle_reading(t) ==
    IF t.timer THEN [t EXCEPT !.timer = FALSE]
    ELSE IF ~t.connected \/ ~t.instrument THEN t
    ELSE IF t.rows = 0 THEN t
    ELSE [t EXCEPT !.timer = TRUE, !.shots = @ + 1]

\* Variables no method of the tester touches.
TesterFrame ==
    UNCHANGED <<instrument, connected, address, timeout, devices, results,
                hist, dash, echo>>

\* A handler of the tester that reads no device ran and left t.
TesterDone(op, t, ok, log) ==
    /\ tester' = t
    /\ lastOp' = op
    /\ lastArgs' = Args(0, 0, "-")
    /\ lastRet' = Ret(ok, "none", 0, <<>>)
    /\ oplog' = log
    /\ UNCHANGED <<pc, pollIdx>>
    /\ TesterFrame

TesterConnect ==
    /\ pc = "idle" /\ ~tester.connected
    /\ \E openOK \in BOOLEAN, answered \in BOOLEAN :
         /\ ~openOK => ~answered
         /\ TesterDone("connect_modbus",
                       tester_connect_modbus(tester, openOK, answered),
                       openOK /\ answered,
                       <<Ev("open", 0, 0, IF openOK THEN "ok" ELSE "fail", 0)>> \o
                       IF openOK
                       THEN <<Ev("probe", 1, 3, IF answered THEN "ok" ELSE "fail",
                                 IoTimeout)>>
                       ELSE <<>>)

TesterDisconnect ==
    /\ pc = "idle" /\ tester.connected
    /\ TesterDone("disconnect_modbus", tester_disconnect_modbus(tester), TRUE,
                  <<Ev("close", 0, 0, "ok", 0)>>)

\* The add button of the devices tab: add_device inserts a row.
TesterAddDevice ==
    /\ pc = "idle" /\ tester.devices_tab /\ tester.rows < MaxRows
    /\ TesterDone("add_device", [tester EXCEPT !.rows = @ + 1], TRUE, <<>>)

\* The toolbar action 'Parar Leitura'.
StopReading ==
    /\ pc = "idle" /\ tester.stop_enabled
    /\ TesterDone("stop_reading", tester_stop_reading(tester), TRUE, <<>>)

\* The button 'Iniciar Leitura' / 'Parar Leitura' of the reading tab.
ToggleReading ==
    /\ pc = "idle"
    /\ tester_toggle_reading(tester).shots <= MaxShots
    /\ TesterDone("toggle_reading", tester_toggle_reading(tester), TRUE, <<>>)

\* update_readings was called and r is what its head left: either the loop
\* over the table rows begins, or the call is over - with the finally
\* clause when the cycle ran over an empty table, and with that of
\* safe_update_readings when the call came through it.
TesterEnter(op, r, viaSafe) ==
    /\ IF r.go /\ r.t.rows > 0
       THEN /\ tester' = [r.t EXCEPT !.safe = viaSafe]
            /\ pc' = "tester"
       ELSE /\ tester' = IF r.go \/ viaSafe THEN tester_finally(r.t) ELSE r.t
            /\ pc' = "idle"
    /\ pollIdx' = 1
    /\ lastOp' = op
    /\ lastArgs' = Args(0, 0, "-")
    /\ lastRet' = Ret(r.go, "none", 0, <<>>)
    /\ oplog' = <<>>
    /\ TesterFrame

\* The toolbar action 'Iniciar Leitura'.
StartReading ==
    /\ pc = "idle" /\ tester.start_enabled
    /\ TesterEnter("start_reading", tester_start_reading(tester), FALSE)

\* The timer self.update_timer names times out.
TesterTick ==
    /\ pc = "idle" /\ tester.timer
    /\ TesterEnter("update_readings", tester_update_readings(tester),
                   tester.slot = "safe_update_readings")

\* A timer start_reading created earlier, and still active, times out.
OrphanTick ==
    /\ pc = "idle" /\ tester.orphan
    /\ TesterEnter("update_readings", tester_update_readings(tester), FALSE)

\* The singleShot of toggle_reading fires: safe_update_readings.
TesterShot ==
    /\ pc = "idle" /\ tester.shots > 0
    /\ TesterEnter("update_readings",
                   tester_update_readings([tester EXCEPT !.shots = @ - 1]), TRUE)

\* One iteration of the loop of update_readings: the register of the row is
\* read and an exception is shown in the row; after the last row the
\* finally clause runs.
TesterRow ==
    /\ pc = "tester"
    /\ pollIdx <= tester.rows
    /\ \E resp \in Resp : oplog' = <<Ev("read", pollIdx, 0, resp, IoTimeout)>>
    /\ tester' = IF pollIdx = tester.rows THEN tester_finally(tester) ELSE tester
    /\ pc' = IF pollIdx = tester.rows THEN "idle" ELSE "tester"
    /\ pollIdx' = pollIdx + 1
    /\ lastOp' = "update_readings"
    /\ lastArgs' = Args(pollIdx, 0, "-")
    /\ lastRet' = Ret(TRUE, "none", 0, <<>>)
    /\ TesterFrame

\* --------------------------------------------------------- specifications
\* The client under any sequence of direct calls.
Next ==
    \/ Connect
    \/ Disconnect
    \/ ReadRegister
    \/ WriteRegister
    \/ ScanDevices

Spec == Init /\ [][Next]_vars

\* The client driven by the poller: devices are registered,
\* read_all_devices is called again and again, and the alarm register is
\* written between polls.
NextPoll ==
    \/ AddDevice
    \/ PollStart
    \/ PollStep
    \/ AlarmWrite

SpecPoll == Init /\ [][NextPoll]_vars

\* The scanner on a client with registered devices.
NextScan ==
    \/ Connect
    \/ AddDevice
    \/ SweepDevices

SpecScan == Init /\ [][NextScan]_vars

\* The client against a device that echoes what is written to it.
NextEcho ==
    \/ EchoWrite
    \/ EchoRead
    \/ Disconnect

SpecEcho == Init /\ [][NextEcho]_vars

\* The tester window: connection, device table, the two ways of starting
\* the readings, the timers and the read cycle.
NextTester ==
    \/ TesterConnect
    \/ TesterDisconnect
    \/ TesterAddDevice
    \/ StartReading
    \/ StopReading
    \/ ToggleReading
    \/ TesterTick
    \/ OrphanTick
    \/ TesterShot
    \/ TesterRow

SpecTester == Init /\ [][NextTester]_vars

\* The classifier on its own, over bounded thresholds and values.
NextClassify == GetStatus

SpecClassify == Init /\ [][NextClassify]_vars

\* The dashboard page: construction, the monitoring button, the update
\* timer and the pending singleShot callbacks.
NextDash ==
    \/ Construct
    \/ ToggleMonitoring
    \/ TimerTick
    \/ ShotUpdate
    \/ ShotStartMonitoring
    \/ UpdateStep

SpecDash == Init /\ [][NextDash]_vars


\* ----------------------------------------------------------------- claims
\* Positions of the events of a log.
FirstIdx(log, op) ==
    IF \E i \in 1 .. Len(log) : log[i].op = op
    THEN CHOOSE i \in 1 .. Len(log) :
            log[i].op = op /\ \A j \in 1 .. (i - 1) : log[j].op # op
    ELSE 0

IsIo(e) == e.op \in {"read", "write"}

\* The I/O of the last read_register / write_register call failed with kind.
LastIoFailedWith(kinds) ==
    /\ lastOp \in {"read_register", "write_register"}
    /\ oplog # <<>>
    /\ IsIo(oplog[Len(oplog)])
    /\ oplog[Len(oplog)].res \in kinds

\* C1: connect() returns failure exactly when the port cannot be opened, and
\* then the client is not connected; whenever the port opens connect()
\* returns success with the client connected, also when no probe answers.
C1_ConnectFailsOnlyOnOpenFailure ==
    lastOp = "connect" =>
        /\ ~lastRet.ok <=> HasEv(oplog, "open", "fail")
        /\ ~lastRet.ok => ~connected
        /\ HasEv(oplog, "open", "ok") => lastRet.ok /\ connected
        /\ lastRet.ok => connected /\ instrument = "open"

\* connect() opened the port, none of the five probes answered, and it
\* returned success.
C1_Witness ==
    /\ lastOp = "connect"
    /\ HasEv(oplog, "open", "ok")
    /\ CountEv(oplog, "probe") = LastProbeAddr
    /\ ~HasEv(oplog, "probe", "ok")
    /\ lastRet.ok /\ connected

C4_ReadOnlyWriteMakesNoTransportCall ==
    (lastOp = "write_register" /\ lastArgs.rt \in {"DISCRETE_INPUT", "INPUT_REGISTER"})
        => ~lastRet.ok /\ oplog = <<>>

\* C5 as stated: scan_devices fails with the not-connected error exactly in
\* the Disconnected state (no open transport); with the transport open it
\* is accepted.
C5_Original ==
    lastOp = "scan_devices" =>
        (lastRet.exc = "ModbusException" <=> instrument # "open")

\* C5 amended: scan_devices fails with the not-connected error exactly when
\* the connected flag is false, which includes the state with the transport
\* open that a NoResponse leaves, and then probes no address; with the flag
\* true the range checks decide and a valid range is swept in full.
C5_ScanNeedsConnectedFlag ==
    lastOp = "scan_devices" =>
        /\ lastRet.exc = "ModbusException" <=> ~connected
        /\ lastRet.exc # "none" => oplog = <<>> /\ lastRet.found = <<>>
        /\ lastRet.exc = "none" => Len(oplog) = lastArgs.b - lastArgs.a + 1

\* scan_devices was refused as not connected while the transport was open.
C5_Witness ==
    /\ lastOp = "scan_devices"
    /\ lastRet.exc = "ModbusException"
    /\ instrument = "open"
    /\ oplog = <<>>

\* C6: a sweep returns exactly the addresses of the range whose probe (input
\* register 0, function code 4) gave a reply or an InvalidResponse, in
\* ascending order and without duplicates.
C6_ScanResult ==
    (lastOp = "scan_devices" /\ lastRet.exc = "none") =>
        LET found == lastRet.found IN
        /\ \A i \in 1 .. Len(oplog) :
              /\ oplog[i].op = "probe" /\ oplog[i].fc = 4
              /\ oplog[i].addr = lastArgs.a + i - 1
        /\ Len(oplog) = lastArgs.b - lastArgs.a + 1
        /\ { found[i] : i \in 1 .. Len(found) }
              = { oplog[i].addr : i \in { j \in 1 .. Len(oplog) :
                                             oplog[j].res \in {"ok", "InvalidResponse"} } }
        /\ \A i, j \in 1 .. Len(found) : i < j => found[i] < found[j]

\* A sweep of 1..3 met a reply, a NoResponse and an InvalidResponse and
\* returned [1, 3].
C6_Witness ==
    /\ lastOp = "scan_devices"
    /\ lastArgs = Args(1, 3, "-")
    /\ Len(oplog) = 3
    /\ oplog[1].res = "ok" /\ oplog[2].res = "NoResponse" /\ oplog[3].res = "InvalidResponse"
    /\ lastRet.found = <<1, 3>>


\* The last action was an iteration of the loop of read_all_devices.
IsPollStep == lastOp = "read_all_devices" /\ pollIdx > 1 /\ Len(results) = pollIdx - 1

\* The log first reconnects (port opened) and only then does its I/O.
ReconnectsBeforeIo(log) ==
    /\ FirstIdx(log, "open") > 0
    /\ \A i \in 1 .. Len(log) : IsIo(log[i]) => FirstIdx(log, "open") < i

\* C3 as stated: when a read of device A gave NoResponse in one poll cycle,
\* the next cycle makes a connect attempt before it reads A.
C3_Original ==
    (IsPollStep /\ hist.nrPrev # 0
       /\ \E i \in 1 .. Len(oplog) : oplog[i].op = "read" /\ oplog[i].addr = hist.nrPrev)
        => hist.reconn

\* C3 amended: a read that fails with NoResponse leaves the client not
\* connected, and the next iteration of the poll loop - the next device of
\* the same cycle, or the first device of the next cycle - reconnects before
\* its I/O; it does no I/O at all when the reconnect fails.
C3_NextReadReconnects ==
    [][ (lastOp' = "read_all_devices" /\ pc = "polling") =>
           /\ HasEv(oplog', "read", "NoResponse") => ~connected'
           /\ ~connected => /\ CountEv(oplog', "open") = 1
                            /\ CountEv(oplog', "read") > 0 => ReconnectsBeforeIo(oplog')
                            /\ HasEv(oplog', "open", "fail") => CountEv(oplog', "read") = 0
           /\ connected => CountEv(oplog', "open") = 0 ]_vars

\* The first device of a cycle gave NoResponse and the second device, in the
\* same cycle, was read after a reconnect.
C3_Witness ==
    /\ IsPollStep /\ pollIdx = 3
    /\ hist.nrCur = devices[1].address
    /\ ReconnectsBeforeIo(oplog)
    /\ HasEv(oplog, "read", "ok")

\* C8: in a poll cycle a device reached while the client is not connected
\* gets exactly one connect attempt; when it fails the device's reading is
\* an error without value, no register read is issued for it, and the loop
\* goes on to the next registered device.
C8_OneReconnectPerDevice ==
    [][ (lastOp' = "read_all_devices" /\ pc = "polling") =>
           /\ ~connected => CountEv(oplog', "open") = 1
           /\ HasEv(oplog', "open", "fail") =>
                 /\ CountEv(oplog', "read") = 0
                 /\ Len(results') = pollIdx
                 /\ results'[pollIdx].address = devices[pollIdx].address
                 /\ results'[pollIdx].status = "erro" /\ ~results'[pollIdx].ok
                 /\ pollIdx' = pollIdx + 1
                 /\ pollIdx < Len(devices) => pc' = "polling" ]_vars

\* A cycle over two devices in which both reconnects failed: two error
\* readings and no register read.
C8_Witness ==
    /\ lastOp = "read_all_devices" /\ pc = "idle"
    /\ Len(devices) = 2 /\ Len(results) = 2
    /\ \A i \in 1 .. 2 : results[i].status = "erro"
    /\ \A a \in 1 .. MaxDevAddr : hist.reads[a] = 0
    /\ HasEv(oplog, "open", "fail")

\* C9: in one poll cycle each registered device's register is read at most
\* once, and no read_register or write_register call makes more than one
\* connect attempt or more than one register I/O.
C9_AtMostOnce ==
    /\ \A a \in 1 .. MaxDevAddr : hist.reads[a] <= 1
    /\ lastOp \in {"read_all_devices", "read_register", "write_register"} =>
          /\ CountEv(oplog, "open") <= 1
          /\ CountEv(oplog, "read") + CountEv(oplog, "write") <= 1

\* A full cycle over two devices has read each of them once.
C9_Witness ==
    /\ lastOp = "read_all_devices" /\ pc = "idle"
    /\ Len(devices) = 2
    /\ \A i \in 1 .. 2 : hist.reads[devices[i].address] = 1

\* C10: read_all_devices returns one reading per registered device, and the
\* devices are read in the order in which they were added to the registry.
C10_OneReadingPerDeviceInOrder ==
    /\ Keys(devices) = hist.addOrder
    /\ lastOp = "read_all_devices" =>
          /\ Len(results) = pollIdx - 1
          /\ \A i \in 1 .. Len(results) : results[i].address = devices[i].address
          /\ pc = "idle" => Len(results) = Len(devices)
    /\ (IsPollStep /\ \E i \in 1 .. Len(oplog) : oplog[i].op = "read") =>
          \E i \in 1 .. Len(oplog) :
              oplog[i].op = "read" /\ oplog[i].addr = devices[pollIdx - 1].address

\* A cycle over the registry [2, 1] (device 2 added first) returned the
\* readings of 2 and 1, in this order.
C10_Witness ==
    /\ lastOp = "read_all_devices" /\ pc = "idle"
    /\ hist.addOrder = <<2, 1>>
    /\ Keys(results) = <<2, 1>>

\* C7: when every device read of a cycle of update_sensor_data fails, every
\* configured sensor is counted as an error and the cycle reports failure
\* and schedules the restart; and a reconnect (connect, which disconnects
\* first) is attempted before the first register read of the next cycle,
\* whichever error kind caused the failures.
C7_AllFailedCycleThenReconnect ==
    [][ /\ (lastOp' = "update_sensor_data" /\ pc = "dash" /\ pc' = "idle"
              /\ dash'.success_count = 0) =>
              /\ dash'.error_count = Len(dash.modbus_devices)
              /\ ~lastRet'.ok
              /\ dash'.allFailed
        /\ (dash.allFailed /\ CountEv(oplog', "read") > 0) =>
              (dash.opened \/ CountEv(oplog', "open") > 0) ]_vars

\* C11: after disconnect() the client is not connected and its port is not
\* open, whatever the state before, and a second disconnect() changes no
\* state.
C11_DisconnectIdempotent ==
    /\ lastOp = "disconnect" => ~connected /\ instrument # "open"
    /\ LET d1 == disconnect(Client).c IN
          /\ ~d1.connected /\ d1.instrument # "open"
          /\ disconnect(d1).c = d1

\* disconnect() has closed the port of a client that had one.
C11_Witness ==
    /\ lastOp = "disconnect"
    /\ HasEv(oplog, "close", "ok")
    /\ instrument = "closed" /\ ~connected

\* C12: the frame of every read_register / write_register I/O goes to the
\* address the call was given, whatever address an earlier connect probe,
\* scan or call left in the instrument.
C12_IoUsesCallersAddress ==
    lastOp \in {"read_register", "write_register"} =>
        /\ \A i \in 1 .. Len(oplog) : IsIo(oplog[i]) => oplog[i].addr = lastArgs.a
        /\ (oplog # <<>> /\ IsIo(oplog[Len(oplog)])) => address = lastArgs.a

\* A read of address 1 that reconnected first: the connect probe was
\* answered by address 2, and the read frame still went to address 1.
C12_Witness ==
    /\ lastOp = "read_register" /\ lastArgs.a = 1
    /\ \E i \in 1 .. Len(oplog) :
          oplog[i].op = "probe" /\ oplog[i].res = "ok" /\ oplog[i].addr = 2
    /\ IsIo(oplog[Len(oplog)]) /\ oplog[Len(oplog)].addr = 1

\* Transport timeouts a call may find in effect: the scanner's, the
\* client's own, and a longer one.
TimeoutChoices == {ScanTimeout, IoTimeout, 5 * IoTimeout}

\* C13: read_register and write_register do their I/O with a transport
\* timeout of 1.0 s and, on every exit path (reply, NoResponse,
\* InvalidResponse, other exception, unsupported register type), leave the
\* timeout at the value it had when the override was applied - here for the
\* calls made and for every timeout the call could find in effect.
C13_TimeoutOverrideIsScoped ==
    /\ lastOp \in {"read_register", "write_register"} =>
          /\ \A i \in 1 .. Len(oplog) : IsIo(oplog[i]) => oplog[i].to = IoTimeout
          /\ instrument # "None" => timeout = ConnectTimeout
    /\ instrument # "None" =>
          \A t \in TimeoutChoices, a \in 1 .. MaxDevAddr, rt \in RegisterType :
          \A e \in EnvConn(Client), resp \in Resp :
             LET c0 == [Client EXCEPT !.timeout = t]
                 g == reconnect_guard(c0, e[1], e[2])
                 r == read_register(c0, a, rt, 0, e[1], e[2], resp, 1)
                 w == write_register(c0, a, 1, rt, e[1], e[2], resp)
             IN  g.ret =>
                   /\ r.c.timeout = g.c.timeout /\ w.c.timeout = g.c.timeout
                   /\ \A i \in 1 .. Len(r.log) : IsIo(r.log[i]) => r.log[i].to = IoTimeout
                   /\ \A i \in 1 .. Len(w.log) : IsIo(w.log[i]) => w.log[i].to = IoTimeout

\* A read on a connected client ended in an exception other than the two
\* Modbus ones, and the timeout is what it was.
C13_Witness ==
    /\ lastOp = "read_register"
    /\ Len(oplog) = 1
    /\ LastIoFailedWith({"other"})
    /\ oplog[1].to = IoTimeout /\ timeout = ConnectTimeout

\* C14: every probe of a sweep is made with a transport timeout of 200 ms,
\* and when scan_devices returns or raises the timeout is what it was before
\* the call, whatever the probes answered.
C14_ScanTimeoutIsScoped ==
    [][ lastOp' = "scan_devices" =>
          /\ timeout' = timeout
          /\ \A i \in 1 .. Len(oplog') : oplog'[i].to = ScanTimeout ]_vars

\* A sweep of three addresses met a reply, a NoResponse and another
\* exception; the timeout is back at the client's 1.0 s.
C14_Witness ==
    /\ lastOp = "scan_devices" /\ lastRet.exc = "none"
    /\ Len(oplog) = 3
    /\ \A i \in 1 .. 3 : oplog[i].to = ScanTimeout
    /\ oplog[1].res = "NoResponse" /\ oplog[2].res = "other" /\ oplog[3].res = "ok"
    /\ timeout = ConnectTimeout

\* Device configurations and register contents the normalisation is tried
\* on: scales 0.1, 0.33 and 1.0, offsets -2.5, 0 and 0.05.
NormalizeDevices ==
    { [DeviceConfig(1, "INPUT_REGISTER", s) EXCEPT !.offset = o] :
        s \in {10, 33, 100}, o \in {-250, 0, 5} }

NormalizeRaws == {0, 5, 7005, 12000, 65535}

Abs(x) == IF x < 0 THEN -x ELSE x

\* clamp gives the nearest value of [min_value, max_value].
ClampsTo(device, v, cv) ==
    /\ device.min_value <= cv /\ cv <= device.max_value
    /\ (device.min_value <= v /\ v <= device.max_value) => cv = v
    /\ v > device.max_value => cv = device.max_value
    /\ v < device.min_value => cv = device.min_value

\* C15 as stated: the value of a successful reading returned by the client
\* lies in [min_value, max_value] of its device.
C15_Original ==
    (IsPollStep /\ results[pollIdx - 1].ok) =>
        LET device == devices[pollIdx - 1]
            v == results[pollIdx - 1].value
        IN  device.min_value <= v /\ v <= device.max_value

\* C15 amended: the client's reading is raw*scale + offset rounded to two
\* decimals and not clamped (raw being what read_register returned); the
\* limits the poller applies to that value bring it into [min_value,
\* max_value] and leave a value inside the interval as it is.
C15_ClientScalesPollerClamps ==
    /\ (IsPollStep /\ results[pollIdx - 1].ok) =>
          LET device == devices[pollIdx - 1]
              v == results[pollIdx - 1].value
          IN  v = lastRet.val /\ ClampsTo(device, v, clamp(device, v))
    /\ connected =>
          \A device \in NormalizeDevices, raw \in NormalizeRaws :
             LET r == read_device(Client, device, TRUE, 0, "ok", raw) IN
             /\ r.ok
             /\ Abs(100 * r.val - (raw * device.scale + 100 * device.offset)) <= 50
             /\ ClampsTo(device, r.val, clamp(device, r.val))

\* The client returned 120.00 for a device whose max_value is 100.00.
C15_Witness ==
    /\ IsPollStep /\ results[pollIdx - 1].ok
    /\ results[pollIdx - 1].value > devices[pollIdx - 1].max_value
    /\ clamp(devices[pollIdx - 1], results[pollIdx - 1].value)
          = devices[pollIdx - 1].max_value

\* C16: the status of a reading is alarm when value >= alarm_threshold,
\* else warning when value >= warning_threshold, else normal, by the
\* thresholds of the device that was read - here for the level the
\* dashboard poller raises for a value it has read.
C16_StatusByDeviceThresholds ==
    (lastOp = "update_sensor_data" /\ pollIdx > 1 /\ HasEv(oplog, "read", "ok")) =>
        LET device == dash.modbus_devices[pollIdx - 1].device
            v == lastRet.val
        IN  dash.alert = IF v >= device.alarm_threshold THEN "CRITICO"
                         ELSE IF v >= device.warning_threshold THEN "ALERTA"
                         ELSE "none"

\* normal < warning < alarm
Severity(status) ==
    CASE status = "normal" -> 0
      [] status = "alerta" -> 1
      [] status = "alarme" -> 2

\* C17: for every device, also one whose warning threshold lies above its
\* alarm threshold, the status never gets less severe as the value grows,
\* and the value alarm_threshold itself is an alarm.
C17_ClassificationMonotonic ==
    lastOp = "_get_status" =>
        LET device == devices[1]
            v == results[1].value
        IN  /\ \A v2 \in ValueChoices :
                  v <= v2 => Severity(results[1].status)
                                <= Severity(get_status(device, v2))
            /\ v = device.alarm_threshold => results[1].status = "alarme"

\* A device with warning 70.00 above alarm 50.00: the value 50.00, below the
\* warning threshold, is an alarm.
C17_Witness ==
    /\ lastOp = "_get_status"
    /\ devices[1].warning_threshold = 7000 /\ devices[1].alarm_threshold = 5000
    /\ results[1].value = 5000
    /\ results[1].status = "alarme"

\* C18: a NoResponse or InvalidResponse of the transport is never raised
\* to the caller of read_register, read_device, read_all_devices or
\* write_register: the call returns its failure value (None, False, a
\* reading with status erro), and a poll cycle goes on with the next device.
C18_CommErrorsAreNotRaised ==
    /\ lastOp \in {"read_all_devices", "write_register"} => lastRet.exc = "none"
    /\ (lastOp = "write_register" /\ oplog # <<>>
           /\ oplog[Len(oplog)].res \in {"NoResponse", "InvalidResponse"}) => ~lastRet.ok
    /\ (IsPollStep /\ (HasEv(oplog, "read", "NoResponse")
                         \/ HasEv(oplog, "read", "InvalidResponse"))) =>
          /\ results[pollIdx - 1].status = "erro" /\ ~results[pollIdx - 1].ok
          /\ pollIdx <= Len(devices) => pc = "polling"
    /\ \A a \in 1 .. MaxDevAddr, rt \in RegisterType :
       \A e \in EnvConn(Client), resp \in {"NoResponse", "InvalidResponse"} :
          LET r == read_register(Client, a, rt, 0, e[1], e[2], resp, 0)
              d == read_device(Client, DeviceConfig(a, rt, 100), e[1], e[2], resp, 0)
          IN  /\ r.exc = "none" /\ ~r.ok
              /\ d.exc = "none" /\ ~d.ok

\* The first device of a cycle over two devices answered with an
\* InvalidResponse: its reading is an error and the cycle is at the second.
C18_Witness ==
    /\ IsPollStep /\ pollIdx = 2 /\ Len(devices) = 2
    /\ HasEv(oplog, "read", "InvalidResponse")
    /\ results[1].status = "erro"
    /\ pc = "polling" /\ lastRet.exc = "none"

\* The registry entry of an address: a set with one element when the
\* address is registered once.
EntriesOf(d, a) == { i \in 1 .. Len(d) : d[i].address = a }

\* C19: the registry never holds two devices with one address; add_device
\* for a registered address replaces that entry, without error and leaving
\* the others alone; nothing else changes the registry; and a poll reads
\* each device as its entry, the last one added for the address, says.
C19_LastAddWins ==
    [][ /\ \A a \in 1 .. MaxDevAddr : Cardinality(EntriesOf(devices', a)) <= 1
        /\ lastOp' = "add_device" =>
              /\ lastRet'.ok /\ lastRet'.exc = "none"
              /\ KeySet(devices') = KeySet(devices) \cup {lastArgs'.a}
              /\ \A i \in 1 .. Len(devices') :
                    IF devices'[i].address = lastArgs'.a
                    THEN devices'[i].register_type = lastArgs'.rt
                    ELSE devices'[i] \in {devices[j] : j \in 1 .. Len(devices)}
        /\ lastOp' # "add_device" => devices' = devices
        /\ (lastOp' = "read_all_devices" /\ pc = "polling") =>
              \A i \in 1 .. Len(oplog') :
                 oplog'[i].op = "read" =>
                    /\ oplog'[i].addr = devices[pollIdx].address
                    /\ oplog'[i].fc = ReadFC(devices[pollIdx].register_type) ]_vars

\* Address 1 was polled as an input register (it read 70.00) and has then
\* been registered again as a coil: the registry holds the coil only.
C19_Witness ==
    /\ lastOp = "add_device" /\ lastArgs.a = 1 /\ lastArgs.rt = "COIL"
    /\ \E i \in 1 .. Len(results) :
          results[i].address = 1 /\ results[i].ok /\ results[i].value = 7000
    /\ Cardinality(EntriesOf(devices, 1)) = 1
    /\ \A i \in EntriesOf(devices, 1) : devices[i].register_type = "COIL"

\* C20: on a device that echoes written values, a successful
\* write_register(a, reg, v, HOLDING_REGISTER) followed by
\* read_register(a, reg, HOLDING_REGISTER) returns v as a float, for the
\* integers v of the register range.
C20_WriteReadRoundTrip ==
    [][ (/\ lastOp = "write_register" /\ lastRet.ok
         /\ lastOp' = "read_register" /\ lastArgs'.a = lastArgs.a) =>
            lastRet'.ok /\ lastRet'.val = 100 * lastArgs.b ]_vars

\* 42 was written to a device and the read that followed returned 42.00.
C20_Witness ==
    /\ lastOp = "read_register" /\ lastRet.ok
    /\ echo[lastArgs.a] = 42
    /\ lastRet.val = 4200

\* C21: a scaled value outside [min_value, max_value] is not a failure: the
\* reading of the device carries that value and the status normal, warning
\* or alarm of it, never the status error - for the cycles run and for
\* every scale, offset and register content tried.
C21_OutOfRangeIsNotAFailure ==
    /\ (IsPollStep /\ HasEv(oplog, "read", "ok")) =>
          LET device == devices[pollIdx - 1]
              e == results[pollIdx - 1]
          IN  /\ e.ok /\ e.value = lastRet.val
              /\ e.status = get_status(device, e.value)
              /\ e.status \in {"normal", "alerta", "alarme"}
    /\ connected =>
          \A device \in NormalizeDevices, raw \in NormalizeRaws :
             LET r == read_device(Client, device, TRUE, 0, "ok", raw)
                 e == Reading(device, r)
             IN  /\ e.ok /\ e.value = r.val
                 /\ e.status \in {"normal", "alerta", "alarme"}

\* A device with max_value 100.00 was read as 120.00 and its reading has
\* the status alarm.
C21_Witness ==
    /\ IsPollStep /\ HasEv(oplog, "read", "ok")
    /\ results[pollIdx - 1].value = 12000
    /\ devices[pollIdx - 1].max_value = 10000
    /\ results[pollIdx - 1].status = "alarme"

\* C22: scan_devices called with start or end outside [1, 247], or with
\* start > end, fails at once: it raises, probes no address and leaves the
\* transport (timeout, address, port) and the connected flag as they were.
C22_BadRangeFailsUntouched ==
    [][ (/\ lastOp' = "scan_devices"
         /\ \/ lastArgs'.a < MinAddress \/ lastArgs'.a > MaxAddress
            \/ lastArgs'.b < MinAddress \/ lastArgs'.b > MaxAddress
            \/ lastArgs'.a > lastArgs'.b) =>
            /\ lastRet'.exc # "none" /\ lastRet'.found = <<>>
            /\ oplog' = <<>>
            /\ timeout' = timeout /\ address' = address
            /\ instrument' = instrument /\ connected' = connected ]_vars

\* A connected client refused the sweep 3..1 with ValueError.
C22_Witness ==
    /\ lastOp = "scan_devices" /\ lastArgs = Args(3, 1, "-")
    /\ connected
    /\ lastRet.exc = "ValueError" /\ oplog = <<>>

\* Function codes of the Modbus requests the client uses.
ReadCodes == [COIL |-> 1, DISCRETE_INPUT |-> 2, HOLDING_REGISTER |-> 3, INPUT_REGISTER |-> 4]

WriteCodes == [COIL |-> 5, HOLDING_REGISTER |-> 6]

\* C23: the register I/O of read_register uses function code 1 for COIL, 2
\* for DISCRETE_INPUT, 3 for HOLDING_REGISTER and 4 for INPUT_REGISTER, that
\* of write_register 5 for COIL and 6 for HOLDING_REGISTER; a write to
\* another type sends no write frame, and no frame of either call - the
\* probes of a reconnect included, which use 4 - carries another code.
C23_FunctionCodeByRegisterType ==
    /\ lastOp = "read_register" =>
          \A i \in 1 .. Len(oplog) :
             /\ oplog[i].op = "read" => oplog[i].fc = ReadCodes[lastArgs.rt]
             /\ oplog[i].op # "write"
             /\ oplog[i].op \in {"read", "probe"} => oplog[i].fc \in 1 .. 4
    /\ lastOp = "write_register" =>
          \A i \in 1 .. Len(oplog) :
             /\ oplog[i].op = "write" =>
                   /\ lastArgs.rt \in DOMAIN WriteCodes
                   /\ oplog[i].fc = WriteCodes[lastArgs.rt]
             /\ oplog[i].op # "read"
             /\ oplog[i].op = "probe" => oplog[i].fc = 4

\* A holding register was read with function code 3.
C23_Witness ==
    /\ lastOp = "read_register" /\ lastArgs.rt = "HOLDING_REGISTER"
    /\ oplog # <<>>
    /\ oplog[Len(oplog)].op = "read" /\ oplog[Len(oplog)].fc = 3
    /\ lastRet.ok

\* The probes of a log, in order.
Probes(log) == SelectSeq(log, LAMBDA e : e.op = "probe")

\* C24: after opening the port connect() reads input register 0 with
\* function code 4 at the addresses 1, 2, 3, 4, 5 in ascending order and
\* stops at the first that answers: no address is probed after an answer,
\* and all five are probed when none answers - in connect() itself and in
\* the reconnect of a read or write.
C24_ProbeStopsAtFirstAnswer ==
    lastOp \in {"connect", "read_register", "write_register"} =>
        LET p == Probes(oplog) IN
        /\ HasEv(oplog, "open", "ok") => Len(p) >= 1
        /\ ~HasEv(oplog, "open", "ok") => p = <<>>
        /\ Len(p) <= LastProbeAddr
        /\ \A i \in 1 .. Len(p) :
              /\ p[i].addr = i /\ p[i].fc = 4
              /\ i < Len(p) => p[i].res # "ok"
        /\ (p # <<>> /\ p[Len(p)].res # "ok") => Len(p) = LastProbeAddr
        /\ \A i \in 1 .. Len(oplog) :
              oplog[i].op = "probe" => FirstIdx(oplog, "open") < i

\* connect() probed 1 and 2 without an answer, got one from 3 and probed no
\* further.
C24_Witness ==
    /\ lastOp = "connect" /\ lastRet.ok
    /\ Len(Probes(oplog)) = 3
    /\ Probes(oplog)[3].res = "ok" /\ Probes(oplog)[3].addr = 3
    /\ address = 3

\* C25: in a poll cycle over several devices, a read that fails with
\* NoResponse or with an exception other than InvalidResponse makes the
\* iteration for the next device of the same cycle begin with a reconnect:
\* the port is closed and reopened and the probe over 1..5 is run again
\* before that device's register is read; when the port does not reopen the
\* device is not read.
C25_ReconnectWithinTheCycle ==
    [][ (/\ lastOp = "read_all_devices" /\ pc = "polling" /\ pollIdx > 1
         /\ oplog # <<>>
         /\ oplog[Len(oplog)].op = "read"
         /\ oplog[Len(oplog)].res \in {"NoResponse", "other"}
         /\ lastOp' = "read_all_devices") =>
            /\ Len(oplog') >= 2
            /\ oplog'[1].op = "close" /\ oplog'[2].op = "open"
            /\ oplog'[2].res = "ok" =>
                  /\ Len(oplog') >= 4
                  /\ oplog'[3].op = "probe" /\ oplog'[3].addr = 1
                  /\ \A i \in 3 .. (Len(oplog') - 1) : oplog'[i].op = "probe"
                  /\ oplog'[Len(oplog')].op = "read"
                  /\ oplog'[Len(oplog')].addr = devices[pollIdx].address
            /\ oplog'[2].res = "fail" =>
                  Len(oplog') = 2 /\ ~results'[pollIdx].ok ]_vars

\* The first device of a cycle failed with NoResponse; for the second the
\* port was closed and reopened, address 1 answered the probe, and the
\* device was read.
C25_Witness ==
    /\ IsPollStep /\ pollIdx = 3
    /\ hist.nrCur = devices[1].address
    /\ Len(oplog) = 4
    /\ oplog[1].op = "close" /\ oplog[2].op = "open"
    /\ oplog[3].op = "probe" /\ oplog[3].res = "ok"
    /\ oplog[4].op = "read" /\ oplog[4].addr = devices[2].address
    /\ results[2].ok

\* C26: when a reconnect attempt fails during a dashboard poll and
\* monitoring is switched off by it, the reconnect is retried until it
\* succeeds and the update timer runs again without a click: as long as the
\* timer has not been restarted, a retry (a pending update_sensor_data) or
\* the restart (a pending start_monitoring) is scheduled.
C26_PollingResumesWithoutUser ==
    (dash.lost /\ pc = "idle") =>
        dash.shots["update_sensor_data"] + dash.shots["start_monitoring"] > 0

\* C27: whenever the client's connected flag is true it has a transport
\* handle whose serial port is open; no operation closes or drops the
\* transport and leaves the flag true.
C27_ConnectedImpliesOpenTransport ==
    /\ connected => instrument = "open"
    /\ \A i \in 1 .. Len(oplog) :
          (oplog[i].op = "close" /\ \A j \in (i + 1) .. Len(oplog) : oplog[j].op # "open")
              => ~connected

\* connect() closed the port of a client that had one and could not reopen
\* it: the flag is false.
C27_Witness ==
    /\ lastOp = "connect"
    /\ HasEv(oplog, "close", "ok") /\ HasEv(oplog, "open", "fail")
    /\ instrument = "closed" /\ ~connected

\* C28: connect() on a client that is already connected is a no-op: it
\* returns success, makes no transport call (no close, no open, no probe)
\* and leaves the slave address, the timeout, the port and the connected
\* flag as they were.
C28_ConnectWhenConnectedIsNoOp ==
    [][ (lastOp' = "connect" /\ connected) =>
           /\ lastRet'.ok
           /\ oplog' = <<>>
           /\ address' = address /\ timeout' = timeout
           /\ instrument' = instrument /\ connected' = connected ]_vars

\* connect() returned success on a connected client without a transport
\* call.
C28_Witness ==
    /\ lastOp = "connect" /\ lastRet.ok
    /\ oplog = <<>>
    /\ connected /\ instrument = "open"
    /\ address = MaxDevAddr

\* C29: scan_devices changes neither the connected flag nor the device
\* registry, whatever the probed addresses answer (a reply, NoResponse,
\* InvalidResponse or another error) and also when it raises.
C29_ScanKeepsFlagAndRegistry ==
    [][ lastOp' = "scan_devices" =>
           /\ connected' = connected
           /\ devices' = devices ]_vars

\* A sweep on a connected client with two registered devices met a
\* NoResponse and another error; the client is still connected and the
\* registry has its two devices.
C29_Witness ==
    /\ lastOp = "scan_devices" /\ lastRet.exc = "none"
    /\ HasEv(oplog, "probe", "NoResponse") /\ HasEv(oplog, "probe", "other")
    /\ connected
    /\ Len(devices) = 2

\* C30: in the tester window, start_reading on a connected tester executes
\* a read cycle (its immediate update_readings call), and so does every
\* later call of update_readings made while connected and with no cycle
\* running; reading_in_progress is true only while a cycle is executing.
C30_ReadingGuardTracksCycle ==
    [][ /\ tester'.reading_in_progress => pc' = "tester"
        /\ (lastOp' = "start_reading" /\ tester.connected) => lastRet'.ok
        /\ (lastOp' = "update_readings" /\ pc = "idle"
              /\ tester.connected /\ tester.instrument) => lastRet'.ok ]_vars

====
